---- MODULE Spec2Model ----
(***************************************************************************)
(* State-machine model of hops/tensorflowonspark/TFCluster.py: the driver  *)
(* side of a TensorFlowOnSpark cluster (run, the background launch thread, *)
(* train, shutdown, exception_handler and exit_handler) and the module     *)
(* globals they share.                                                     *)
(*                                                                         *)
(* Program positions are named after the source line that executes next    *)
(* ("L266" is the assert of run).  Actor 0 is the driver (main) thread,    *)
(* actor r >= 1 is the background thread started by the r-th call of run.  *)
(***************************************************************************)
EXTENDS Integers, Sequences, FiniteSets, TLC

\* ------------------------------------------------------------------ bounds
MaxRuns == 2
MaxNodes == 3
MaxStages == 2
MaxLen == 2
MaxEpochs == 2

\* ------------------------------------------------------- program constants
TENSORFLOW == 0
SPARK == 1
DoneCount == 3
DefaultEpochs == 10

\* Python's None, where it is an argument of run (master_node).
None == "None"

VARIABLES
  tf_status,        \* module global: a dict, empty or {'error': message}
  elastic_id,       \* module global
  experiment_json,  \* module global: None, a serialized document, or a parsed one
  running,          \* module global
  run_id,           \* module global
  pc,               \* pc[0]: driver thread; pc[r]: background thread of run r
  args,             \* arguments of the current call (run or shutdown)
  cluster_template, \* local of run
  server,           \* server[r]: the reservation.Server started by run r
  cluster_info,     \* local of run
  cluster,          \* the TFCluster handle the caller holds
  ret,              \* outcome of the driver's last call
  sd,               \* locals of shutdown
  tmp,              \* tmp[a]: the value actor a computed from experiment_json and has not stored yet
  engine,           \* what the driver asked of the SparkContext / StreamingContext
  control,          \* per registry position: the node's 'control' queue
  sink,             \* every util.put_elastic call, in order
  hist              \* observations about the run of the program (no program state)

vars == <<tf_status, elastic_id, experiment_json, running, run_id, pc, args,
          cluster_template, server, cluster_info, cluster, ret, sd, tmp, engine,
          control, sink, hist>>

\* ---------------------------------------------------------------- helpers
\* Python's range(lo, hi)
Range(lo, hi) == lo .. (hi - 1)

Min(a, b) == IF a <= b THEN a ELSE b

EmptyDict == [k \in {} |-> 0]

\* d[k] = v of a Python dict
DictPut(d, k, v) == [x \in DOMAIN d \cup {k} |-> IF x = k THEN v ELSE d[x]]

\* ---------------------------------------------------- the experiment record
\* A value of experiment_json: the document (status, and the run whose
\* populate_experiment created it) under `depth` serializations.  depth 0 is
\* the parsed dict, depth 1 its json.dumps, depth 2 the json.dumps of that str.
\* Python's None is the base "None" at depth 0 (json.dumps(None) = 'null').
NoneJson == [status |-> "None", owner |-> 0, depth |-> 0]

IsNone(j) == j = NoneJson

\* json.loads raises TypeError on anything that is not a str
CanLoad(j) == j.depth >= 1
JsonLoads(j) == [j EXCEPT !.depth = j.depth - 1]

JsonDumps(j) == [j EXCEPT !.depth = j.depth + 1]

\* experiment_json['status'] = s needs a dict
CanAssign(j) == j.depth = 0 /\ j.status # "None"
SetStatus(j, s) == [j EXCEPT !.status = s]

\* ------------------------------------------------------------ Role Planner
\* run, lines 274-283
ClusterTemplate(num_ps, num_executors, master_node) ==
  LET t0 == DictPut(EmptyDict, "ps", Range(0, num_ps))
  IN IF master_node = None
       THEN DictPut(t0, "worker", Range(num_ps, num_executors))
       ELSE LET t1 == DictPut(t0, master_node, Range(num_ps, num_ps + 1))
            IN IF num_executors > num_ps + 1
                 THEN DictPut(t1, "worker", Range(num_ps + 1, num_executors))
                 ELSE t1

\* the role of partition i in the template ("" when the template has none)
RoleOf(template, i) ==
  IF \E k \in DOMAIN template : i \in template[k]
    THEN CHOOSE k \in DOMAIN template : i \in template[k]
    ELSE ""

\* ------------------------------------------------------------ initial state
NoArgs == [num_executors |-> 0, num_ps |-> 0, input_mode |-> TENSORFLOW,
           driver_ps_nodes |-> FALSE, log_dir |-> FALSE, master_node |-> None,
           ssc |-> FALSE]

\* count: the number of nodes the server expects (reservation.Server(num_executors))
NoServer == [started |-> FALSE, count |-> 0, gpu |-> 0, reservations |-> <<>>,
             done |-> FALSE]

NoCluster == [run |-> 0, cluster_info |-> <<>>, input_mode |-> TENSORFLOW,
              shut |-> FALSE]

NoRet == [op |-> "none", outcome |-> "none", node_id |-> <<>>]

\* jobs: the local `jobs` of lines 161 and 215 ("none" before its first
\* assignment, then whether the list of active job ids was empty)
NoSd == [count |-> 0, ps_list |-> <<>>, worker_list |-> <<>>, i |-> 0,
         term |-> FALSE, jobs |-> "none", mark |-> 0]

\* quiet: every job of the SparkContext has ended and none will be submitted
\* fed: the sequences handed to foreachPartition by train, in order;
\* stream_feed: a foreachRDD callback is registered on a DStream
NoEngine == [cancelled |-> 0, ssc_stopped |-> 0, worker_tasks |-> 0,
             quiet |-> FALSE, fed |-> <<>>, stream_feed |-> FALSE]

\* no call of train has been made
NoCall == [dataRDD |-> <<>>, num_epochs |-> 0, qname |-> "", dstream |-> FALSE,
           made |-> FALSE]

Globals == [run_id |-> run_id, elastic_id |-> elastic_id, running |-> running,
            experiment_json |-> experiment_json, tf_status |-> tf_status]

Init ==
  /\ tf_status = EmptyDict
  /\ elastic_id = 0
  /\ experiment_json = NoneJson
  /\ running = FALSE
  /\ run_id = 0
  /\ pc = [a \in 0 .. MaxRuns |-> IF a = 0 THEN "idle" ELSE "unborn"]
  /\ args = NoArgs
  /\ cluster_template = EmptyDict
  /\ server = [r \in 1 .. MaxRuns |-> NoServer]
  /\ cluster_info = <<>>
  /\ cluster = NoCluster
  /\ ret = NoRet
  /\ sd = NoSd
  /\ tmp = [a \in 0 .. MaxRuns |-> NoneJson]
  /\ engine = NoEngine
  /\ control = <<>>
  /\ sink = <<>>
  /\ hist = [pre |-> [run_id |-> 0, elastic_id |-> 0, running |-> FALSE,
                      experiment_json |-> NoneJson, tf_status |-> EmptyDict],
             streak |-> 0, stageRun |-> <<0, 0>>, byCount |-> FALSE,
             errPath |-> FALSE, strategies |-> {}, busy |-> FALSE,
             calls |-> 0, call |-> NoCall,
             terminated |-> {}]

\* the driver raises: the call ends, the exception goes to the caller
Raise(op, outcome, node_id) ==
  /\ pc' = [pc EXCEPT ![0] = "idle"]
  /\ ret' = [op |-> op, outcome |-> outcome, node_id |-> node_id]

\* the call of run ends: its arguments and locals are gone
RunLocalsDropped ==
  /\ args' = NoArgs
  /\ cluster_template' = EmptyDict
  /\ cluster_info' = <<>>

Goto(a, l) == pc' = [pc EXCEPT ![a] = l]

\* util.put_elastic(project, app_id, 'dist' + str(elastic_id), experiment_json)
PutElastic(a, line) ==
  sink' = Append(sink, [label |-> elastic_id, doc |-> experiment_json,
                        actor |-> a, line |-> line,
                        terminated |-> hist.terminated])

\* ------------------------------------------------------------------- run
\* RunCall without the increment of elastic_id (line 261)
RunCallSameLabel(inputs, limit) ==
  /\ pc[0] = "idle"
  /\ run_id < limit
  /\ \E a \in inputs : args' = a
  /\ elastic_id' = elastic_id
  /\ run_id' = run_id + 1
  /\ running' = TRUE
  /\ hist' = [hist EXCEPT !.pre = Globals, !.calls = @ + 1, !.errPath = FALSE,
                           !.strategies = {}, !.busy = FALSE]
  /\ Goto(0, "L266")
  /\ ret' = NoRet
  /\ sd' = NoSd
  /\ engine' = [NoEngine EXCEPT !.quiet = engine.quiet]
  /\ UNCHANGED <<tf_status, experiment_json, cluster_template, server,
                 cluster_info, cluster, control, sink, tmp>>

\* run, lines 257-263: the caller enters run with arguments a (the locals of
\* an earlier call of shutdown and what was observed of it are gone)
RunCall(inputs, limit) ==
  /\ pc[0] = "idle"
  /\ run_id < limit
  /\ \E a \in inputs : args' = a
  /\ elastic_id' = elastic_id + 1
  /\ run_id' = run_id + 1
  /\ running' = TRUE
  /\ hist' = [hist EXCEPT !.pre = Globals, !.calls = @ + 1, !.errPath = FALSE,
                           !.strategies = {}, !.busy = FALSE]
  /\ Goto(0, "L266")
  /\ ret' = NoRet
  /\ sd' = NoSd
  /\ engine' = [NoEngine EXCEPT !.quiet = engine.quiet]
  /\ UNCHANGED <<tf_status, experiment_json, cluster_template, server,
                 cluster_info, cluster, control, sink, tmp>>

\* run, lines 266-312: the precondition checks, the template, the server
RunCheck ==
  /\ pc[0] = "L266"
  /\ IF ~(args.num_ps < args.num_executors)
       THEN Raise("run", "AssertionError", <<>>) /\ RunLocalsDropped /\ UNCHANGED server
       ELSE IF args.driver_ps_nodes
         THEN Raise("run", "DriverPsNodes", <<>>) /\ RunLocalsDropped /\ UNCHANGED server
         ELSE IF args.log_dir
           THEN Raise("run", "LogDir", <<>>) /\ RunLocalsDropped /\ UNCHANGED server
           ELSE /\ cluster_template' =
                     ClusterTemplate(args.num_ps, args.num_executors, args.master_node)
                /\ server' = [server EXCEPT ![run_id] =
                            [NoServer EXCEPT !.started = TRUE,
                                             !.count = args.num_executors]]
                /\ Goto(0, "L317")
                /\ UNCHANGED <<ret, args, cluster_info>>
  /\ UNCHANGED <<tf_status, elastic_id, experiment_json, running, run_id,
                 cluster, sd, engine, control, sink, hist, tmp>>

\* run, line 317
RunResetRecord ==
  /\ pc[0] = "L317"
  /\ experiment_json' = NoneJson
  /\ Goto(0, "L318")
  /\ UNCHANGED <<tf_status, elastic_id, running, run_id, args, cluster_template,
                 server, cluster_info, cluster, ret, sd, engine, control, sink, hist,
                 tmp>>

\* util.populate_experiment: a serialized document with status RUNNING
PopulateExperiment(r) == [status |-> "RUNNING", owner |-> r, depth |-> 1]

\* run, line 318
RunPopulate ==
  /\ pc[0] = "L318"
  /\ experiment_json' = PopulateExperiment(run_id)
  /\ Goto(0, "L320")
  /\ UNCHANGED <<tf_status, elastic_id, running, run_id, args, cluster_template,
                 server, cluster_info, cluster, ret, sd, engine, control, sink, hist,
                 tmp>>

\* run, line 320
RunPutElastic ==
  /\ pc[0] = "L320"
  /\ PutElastic(0, 320)
  /\ Goto(0, "L346")
  /\ UNCHANGED <<tf_status, elastic_id, experiment_json, running, run_id, args,
                 cluster_template, server, cluster_info, cluster, ret, sd, engine,
                 control, hist, tmp>>

\* run, lines 341-346: t.start()
RunStartThread ==
  /\ pc[0] = "L346"
  /\ pc' = [pc EXCEPT ![0] = "L351", ![run_id] = "L326"]
  /\ UNCHANGED <<tf_status, elastic_id, experiment_json, running, run_id, args,
                 cluster_template, server, cluster_info, cluster, ret, sd, engine,
                 control, sink, hist, tmp>>

\* ------------------------------------------- the nodes and the coordinator
\* While run waits on the server, a node of the bootstrap job reports its
\* capability signal.
NodeGpuCheck ==
  /\ pc[0] \in {"L351", "L357"}
  /\ pc[run_id] = "L326"
  /\ server[run_id].started
  /\ server[run_id].gpu < server[run_id].count
  /\ server' = [server EXCEPT ![run_id].gpu = @ + 1]
  /\ UNCHANGED <<tf_status, elastic_id, experiment_json, running, run_id, pc, args,
                 cluster_template, cluster_info, cluster, ret, sd, engine, control,
                 sink, hist, tmp>>

\* While run waits on the server, the next partition registers its NodeRecord; its role
\* is the one the template gives its partition index, its (host, executor_id)
\* is where the engine placed the task.
NodeRegister(placement) ==
  /\ pc[0] \in {"L351", "L357"}
  /\ pc[run_id] = "L326"
  /\ server[run_id].started
  /\ LET n == Len(server[run_id].reservations)
     IN /\ n < server[run_id].gpu
        /\ RoleOf(cluster_template, n) # ""
        /\ \E id \in placement[n] :
             server' = [server EXCEPT ![run_id].reservations =
                          Append(@, [host |-> id[1], executor_id |-> id[2],
                                     job_name |-> RoleOf(cluster_template, n),
                                     worker_num |-> n])]
  /\ UNCHANGED <<tf_status, elastic_id, experiment_json, running, run_id, pc, args,
                 cluster_template, cluster_info, cluster, ret, sd, engine, control,
                 sink, hist, tmp>>

\* reservation.Server.await_gpu_check returns: every node has reported
AwaitGpuCheckReturns(srv) == srv.gpu = srv.count

\* reservation.Server.await_reservations returns the registry: all registered
AwaitReservationsReturns(srv) == Len(srv.reservations) = srv.count

\* reservation.Server.await_reservations raises: the timeout elapsed with
\* fewer records than nodes
AwaitReservationsTimesOut(srv) == Len(srv.reservations) < srv.count

\* RunAwaitGpu without the call of await_reservations that follows it
RunAwaitGpuOnly ==
  /\ pc[0] = "L351"
  /\ AwaitGpuCheckReturns(server[run_id])
  /\ cluster_info' = server[run_id].reservations
  /\ Goto(0, "L378")
  /\ UNCHANGED <<tf_status, elastic_id, experiment_json, running, run_id, args,
                 cluster_template, server, cluster, ret, sd, engine, control,
                 sink, hist, tmp>>

\* run, line 351
RunAwaitGpu ==
  /\ pc[0] = "L351"
  /\ AwaitGpuCheckReturns(server[run_id])
  /\ Goto(0, "L357")
  /\ UNCHANGED <<tf_status, elastic_id, experiment_json, running, run_id, args,
                 cluster_template, server, cluster_info, cluster, ret, sd, engine,
                 control, sink, hist, tmp>>

\* run, line 357: the registry is complete
RunAwaitReservations ==
  /\ pc[0] = "L357"
  /\ AwaitReservationsReturns(server[run_id])
  /\ cluster_info' = server[run_id].reservations
  /\ Goto(0, "L378")
  /\ UNCHANGED <<tf_status, elastic_id, experiment_json, running, run_id, args,
                 cluster_template, server, cluster, ret, sd, engine, control,
                 sink, hist, tmp>>

\* run, line 357: await_reservations raises
RunReservationTimeout ==
  /\ pc[0] = "L357"
  /\ AwaitReservationsTimesOut(server[run_id])
  /\ Raise("run", "Timeout", <<>>)
  /\ RunLocalsDropped
  /\ UNCHANGED <<tf_status, elastic_id, experiment_json, running, run_id,
                 server, cluster, sd, engine, control, sink, hist, tmp>>

\* DuplicateScan that remembers only the node before
RECURSIVE DuplicateScanLast(_, _, _)
DuplicateScanLast(info, i, tb_nodes) ==
  IF i > Len(info) THEN <<>>
  ELSE LET node_id == <<info[i].host, info[i].executor_id>>
       IN IF node_id \in tb_nodes
            THEN node_id
            ELSE DuplicateScanLast(info, i + 1, {node_id})

\* run, lines 378-388: the loop over cluster_info from position i with the
\* set tb_nodes; the node_id the exception names, or <<>> when none is raised
RECURSIVE DuplicateScan(_, _, _)
DuplicateScan(info, i, tb_nodes) ==
  IF i > Len(info) THEN <<>>
  ELSE LET node_id == <<info[i].host, info[i].executor_id>>
       IN IF node_id \in tb_nodes
            THEN node_id
            ELSE DuplicateScan(info, i + 1, tb_nodes \cup {node_id})

\* run, lines 378-401: the duplicate check, then the handle
RunCheckDuplicates ==
  /\ pc[0] = "L378"
  /\ LET dup == DuplicateScan(cluster_info, 1, {})
     IN IF dup # <<>>
          THEN Raise("run", "Duplicate", dup) /\ UNCHANGED <<cluster, control>>
          ELSE /\ cluster' = [run |-> run_id, cluster_info |-> cluster_info,
                              input_mode |-> args.input_mode, shut |-> FALSE]
               /\ control' = [i \in 1 .. Len(cluster_info) |->
                                [put |-> 0, unfinished |-> 0]]
               /\ pc' = [pc EXCEPT ![0] = "idle"]
               /\ ret' = [op |-> "run", outcome |-> "handle", node_id |-> <<>>]
  /\ RunLocalsDropped
  /\ UNCHANGED <<tf_status, elastic_id, experiment_json, running, run_id,
                 server, sd, engine, sink, hist, tmp>>

\* ------------------------------------------------- the Launch Supervisor
Alive == pc[0] # "exited"

\* _start, line 326: foreachPartition returns normally, the thread ends
ThreadFinish(r) ==
  /\ Alive
  /\ pc[r] = "L326"
  /\ Goto(r, "finished")
  /\ UNCHANGED <<tf_status, elastic_id, experiment_json, running, run_id, args,
                 cluster_template, server, cluster_info, cluster, ret, sd, engine,
                 control, sink, hist, tmp>>

\* _start, lines 326 and 336: foreachPartition raises, the except clause is entered
ThreadRaise(r) ==
  /\ Alive
  /\ pc[r] = "L326"
  /\ Goto(r, "L338")
  /\ UNCHANGED <<tf_status, elastic_id, experiment_json, running, run_id, args,
                 cluster_template, server, cluster_info, cluster, ret, sd, engine,
                 control, sink, hist, tmp>>

\* _start, lines 338-339: status['error'] = str(e), then exception_handler()
ThreadSetError(r) ==
  /\ Alive
  /\ pc[r] = "L338"
  /\ tf_status' = DictPut(tf_status, "error", r)
  /\ Goto(r, "L407")
  /\ UNCHANGED <<elastic_id, experiment_json, running, run_id, args,
                 cluster_template, server, cluster_info, cluster, ret, sd, engine,
                 control, sink, hist, tmp>>

\* ----------------------------------------- exception_handler, exit_handler
\* Both handlers are the same five statements; each statement reads the
\* global experiment_json again, and an assignment to it is a step of its own
\* after the evaluation of its right-hand side.  Actor a is at label `from`.
\* where the handler returns to
HandlerReturn(a) ==
  IF a = 0 THEN (IF pc[0] \in {"L407", "L412"} THEN "L189" ELSE "exited") ELSE "end"

\* a statement of the handler raises TypeError: a background thread dies, shutdown
\* passes the exception to its caller, the interpreter logs it at exit
HandlerTypeError(a) ==
  IF a = 0 /\ pc[0] \in {"L408", "L409"}
    THEN Raise("shutdown", "TypeError", <<>>)
    ELSE Goto(a, IF a = 0 THEN "exited" ELSE "dead") /\ UNCHANGED ret

\* lines 407 / 417: if running and experiment_json != None
HandlerGuard(a, from, to) ==
  /\ Alive
  /\ pc[a] = from
  /\ IF running /\ ~IsNone(experiment_json)
       THEN Goto(a, to)
       ELSE Goto(a, HandlerReturn(a))
  /\ UNCHANGED <<tf_status, elastic_id, experiment_json, running, run_id, args,
                 cluster_template, server, cluster_info, cluster, ret, sd, engine,
                 control, sink, hist, tmp>>

\* lines 408 / 418: json.loads(experiment_json) is evaluated
HandlerLoads(a, from, to) ==
  /\ Alive
  /\ pc[a] = from
  /\ IF CanLoad(experiment_json)
       THEN /\ tmp' = [tmp EXCEPT ![a] = JsonLoads(experiment_json)]
            /\ Goto(a, to)
            /\ UNCHANGED ret
       ELSE HandlerTypeError(a) /\ UNCHANGED tmp
  /\ UNCHANGED <<tf_status, elastic_id, experiment_json, running, run_id, args,
                 cluster_template, server, cluster_info, cluster, sd, engine,
                 control, sink, hist>>

\* lines 408, 411 / 418, 421: the value is assigned to the global experiment_json
HandlerStore(a, from, to) ==
  /\ Alive
  /\ pc[a] = from
  /\ experiment_json' = tmp[a]
  /\ tmp' = [tmp EXCEPT ![a] = NoneJson]
  /\ Goto(a, to)
  /\ UNCHANGED <<tf_status, elastic_id, running, run_id, args, cluster_template,
                 server, cluster_info, cluster, ret, sd, engine, control, sink, hist>>

\* lines 409-410 / 419-420: experiment_json['status'] = status; ['finished'] = now
HandlerAssign(a, from, to, status) ==
  /\ Alive
  /\ pc[a] = from
  /\ IF CanAssign(experiment_json)
       THEN experiment_json' = SetStatus(experiment_json, status) /\ Goto(a, to)
            /\ UNCHANGED ret
       ELSE HandlerTypeError(a) /\ UNCHANGED experiment_json
  /\ UNCHANGED <<tf_status, elastic_id, running, run_id, args, cluster_template,
                 server, cluster_info, cluster, sd, engine, control, sink, hist,
                 tmp>>

\* lines 411 / 421: json.dumps(experiment_json) is evaluated
HandlerDumps(a, from, to) ==
  /\ Alive
  /\ pc[a] = from
  /\ tmp' = [tmp EXCEPT ![a] = JsonDumps(experiment_json)]
  /\ Goto(a, to)
  /\ UNCHANGED <<tf_status, elastic_id, experiment_json, running, run_id, args,
                 cluster_template, server, cluster_info, cluster, ret, sd, engine,
                 control, sink, hist>>

\* lines 412 / 422: util.put_elastic(...)
HandlerPut(a, from, line) ==
  /\ Alive
  /\ pc[a] = from
  /\ PutElastic(a, line)
  /\ Goto(a, HandlerReturn(a))
  /\ UNCHANGED <<tf_status, elastic_id, experiment_json, running, run_id, args,
                 cluster_template, server, cluster_info, cluster, ret, sd, engine,
                 control, hist, tmp>>

\* exception_handler, lines 404-412, run by actor a
ExceptionHandler(a) ==
  \/ HandlerGuard(a, "L407", "L408")
  \/ HandlerLoads(a, "L408", "L408s")
  \/ HandlerStore(a, "L408s", "L409")
  \/ HandlerAssign(a, "L409", "L411", "FAILED")
  \/ HandlerDumps(a, "L411", "L411s")
  \/ HandlerStore(a, "L411s", "L412")
  \/ HandlerPut(a, "L412", 412)

\* the interpreter exits while the driver is outside run and shutdown: atexit
\* calls exit_handler
ProcessExit ==
  /\ pc[0] = "idle"
  /\ Goto(0, "L417")
  /\ UNCHANGED <<tf_status, elastic_id, experiment_json, running, run_id, args,
                 cluster_template, server, cluster_info, cluster, ret, sd, engine,
                 control, sink, hist, tmp>>

\* exit_handler, lines 414-422
ExitHandler ==
  \/ HandlerGuard(0, "L417", "L418")
  \/ HandlerLoads(0, "L418", "L418s")
  \/ HandlerStore(0, "L418s", "L419")
  \/ HandlerAssign(0, "L419", "L421", "KILLED")
  \/ HandlerDumps(0, "L421", "L421s")
  \/ HandlerStore(0, "L421s", "L422")
  \/ HandlerPut(0, "L422", 422)

\* ------------------------------------------------------------------ train
\* run, line 235: the default of the argument queues, kept by the handle
Queues == {"input", "output", "error"}

\* train without the default of lines 97-98
TrainEpochsNoDefault(num_epochs) == num_epochs

\* train, lines 97-98
TrainEpochs(num_epochs) == IF num_epochs = 0 THEN DefaultEpochs ELSE num_epochs

\* train, lines 99-101: the list rdds after i more rounds of the loop
RECURSIVE Rdds(_, _, _)
Rdds(rdds, dataRDD, i) ==
  IF i <= 0 THEN rdds ELSE Rdds(Append(rdds, dataRDD), dataRDD, i - 1)

\* train, line 102: sc.union(rdds), the rows of the RDDs of the list in order
RECURSIVE Union(_)
Union(rdds) == IF rdds = <<>> THEN <<>> ELSE Head(rdds) \o Union(Tail(rdds))

\* train, lines 71-103: the caller feeds dataRDD through its handle (the first
\* call of train in the process)
Train(inputs) ==
  /\ pc[0] = "idle"
  /\ cluster.run > 0
  /\ ~hist.call.made
  /\ \E a \in inputs :
       /\ hist' = [hist EXCEPT !.call =
                     [dataRDD |-> a.dataRDD, num_epochs |-> a.num_epochs,
                      qname |-> a.qname, dstream |-> a.dstream, made |-> TRUE]]
       /\ IF \/ cluster.input_mode # SPARK
             \/ a.qname \notin Queues
             \/ ~(a.num_epochs >= 0)
            THEN /\ ret' = [op |-> "train", outcome |-> "AssertionError",
                            node_id |-> <<>>]
                 /\ UNCHANGED engine
            ELSE /\ ret' = [op |-> "train", outcome |-> "returned", node_id |-> <<>>]
                 /\ engine' =
                      IF a.dstream
                        THEN [engine EXCEPT !.stream_feed = TRUE]
                        ELSE [engine EXCEPT !.fed = Append(@,
                                Union(Rdds(<<>>, a.dataRDD, TrainEpochs(a.num_epochs))))]
  /\ UNCHANGED <<tf_status, elastic_id, experiment_json, running, run_id, pc, args,
                 cluster_template, server, cluster_info, cluster, sd, control,
                 sink, tmp>>

\* ---------------------------------------------------------------- shutdown
\* shutdown, lines 137-142: the registry positions whose job_name is / is not 'ps'
RECURSIVE SelectNodes(_, _, _)
SelectNodes(info, i, ps) ==
  IF i > Len(info) THEN <<>>
  ELSE IF (info[i].job_name = "ps") = ps
    THEN <<i>> \o SelectNodes(info, i + 1, ps)
    ELSE SelectNodes(info, i + 1, ps)

\* DrainEntry testing the input mode before the streaming handle
DrainEntryModeFirst(ssc, input_mode) ==
  IF input_mode = TENSORFLOW THEN "L160" ELSE IF ssc THEN "L148" ELSE "L181"

\* shutdown, lines 144, 156: the first statement of the mode's drain
DrainEntry(ssc, input_mode) ==
  IF ssc THEN "L148" ELSE IF input_mode = TENSORFLOW THEN "L160" ELSE "L181"

\* shutdown, lines 134-156: the caller enters shutdown(ssc) on its handle, with
\* a streaming handle or without as sscs allows
ShutdownCall(sscs) ==
  /\ pc[0] = "idle"
  /\ cluster.run > 0
  /\ ~cluster.shut
  /\ \E ssc \in sscs :
       /\ args' = [args EXCEPT !.ssc = ssc]
       /\ Goto(0, DrainEntry(ssc, cluster.input_mode))
  /\ sd' = [NoSd EXCEPT !.ps_list = SelectNodes(cluster.cluster_info, 1, TRUE),
                        !.worker_list = SelectNodes(cluster.cluster_info, 1, FALSE),
                        !.mark = Len(sink)]
  /\ cluster' = [cluster EXCEPT !.shut = TRUE]
  /\ engine' = [NoEngine EXCEPT !.quiet = engine.quiet]
  /\ ret' = NoRet
  /\ hist' = [hist EXCEPT !.streak = 0, !.stageRun = <<0, 0>>,
                           !.byCount = FALSE, !.errPath = FALSE,
                           !.strategies = {}, !.busy = FALSE]
  /\ UNCHANGED <<tf_status, elastic_id, experiment_json, running, run_id,
                 cluster_template, server, cluster_info, control, sink, tmp>>

\* the coordinator of the handle's run is told the cluster is done (server.done)
ServerDone ==
  /\ Alive
  /\ cluster.run > 0
  /\ ~server[cluster.run].done
  /\ server' = [server EXCEPT ![cluster.run].done = TRUE]
  /\ UNCHANGED <<tf_status, elastic_id, experiment_json, running, run_id, pc, args,
                 cluster_template, cluster_info, cluster, ret, sd, engine, control,
                 sink, hist, tmp>>

\* the last job of the SparkContext ends, and no job is submitted after it
EngineQuiet ==
  /\ Alive
  /\ ~engine.quiet
  /\ engine' = [engine EXCEPT !.quiet = TRUE]
  /\ UNCHANGED <<tf_status, elastic_id, experiment_json, running, run_id, pc, args,
                 cluster_template, server, cluster_info, cluster, ret, sd, control,
                 sink, hist, tmp>>

\* shutdown, lines 148-151: one tick of the streaming poll
StreamTick ==
  /\ pc[0] = "L148"
  /\ \E done \in BOOLEAN :
       /\ sd' = [sd EXCEPT !.term = done]
       /\ engine' = IF ~done /\ server[cluster.run].done
                      THEN [engine EXCEPT !.ssc_stopped = @ + 1]
                      ELSE engine
  /\ Goto(0, "L152")
  /\ hist' = [hist EXCEPT !.strategies = @ \cup {"streaming"}]
  /\ UNCHANGED <<tf_status, elastic_id, experiment_json, running, run_id, args,
                 cluster_template, server, cluster_info, cluster, ret, control,
                 sink, tmp>>

\* shutdown, line 152 and the loop test of line 147
StreamCheck ==
  /\ pc[0] = "L152"
  /\ Goto(0, IF sd.term \/ server[cluster.run].done THEN "L186" ELSE "L148")
  /\ UNCHANGED <<tf_status, elastic_id, experiment_json, running, run_id, args,
                 cluster_template, server, cluster_info, cluster, ret, sd, engine,
                 control, sink, hist, tmp>>

\* shutdown, lines 164-170: the loop over the active stages from position i;
\* the count after it
RECURSIVE CountStages(_, _, _, _)
CountStages(stages, i, count, n_ps) ==
  IF i > Len(stages) THEN count
  ELSE CountStages(stages, i + 1,
                   IF stages[i] = n_ps THEN count + 1 ELSE count, n_ps)

\* shutdown, lines 164-170: the getStageInfo results of the loop seen one by
\* one; run[1] is the number of consecutive results that matched up to the
\* latest one, run[2] the longest such number so far (both capped at DoneCount)
RECURSIVE StageRuns(_, _, _, _)
StageRuns(stages, i, run, n_ps) ==
  IF i > Len(stages) THEN run
  ELSE LET cur == IF stages[i] = n_ps THEN Min(run[1] + 1, DoneCount) ELSE 0
           best == IF cur > run[2] THEN cur ELSE run[2]
       IN StageRuns(stages, i + 1, <<cur, best>>, n_ps)

\* st.getActiveJobsIds() of lines 161 and 215: whether a sample can show
\* active jobs
JobSamples == IF engine.quiet THEN {FALSE} ELSE BOOLEAN

\* the status samples a poll can see: numActiveTasks of each active stage
StageSamples ==
  UNION {[1 .. n -> 0 .. MaxNodes] : n \in 0 .. MaxStages}

\* shutdown, lines 159-174: one iteration of the TENSORFLOW-mode drain loop
TfPoll ==
  /\ pc[0] = "L160"
  /\ \E jobs \in JobSamples, stages \in StageSamples :
       LET count == CountStages(stages, 1, sd.count, Len(sd.ps_list))
           matched == count > sd.count
           done == matched /\ count >= DoneCount
       IN IF jobs
            THEN /\ sd' = [sd EXCEPT !.count = count, !.jobs = "some"]
                 /\ Goto(0, IF done THEN "L181" ELSE "L160")
                 /\ hist' = [hist EXCEPT
                      !.streak = IF matched THEN Min(@ + 1, DoneCount) ELSE 0,
                      !.stageRun = StageRuns(stages, 1, @, Len(sd.ps_list)),
                      !.byCount = done,
                      !.strategies = @ \cup {"status"}]
                 /\ UNCHANGED running
            ELSE /\ running' = FALSE
                 /\ Goto(0, "L181")
                 /\ hist' = [hist EXCEPT !.streak = 0,
                                          !.strategies = @ \cup {"status"}]
                 /\ sd' = [sd EXCEPT !.jobs = "zero"]
  /\ UNCHANGED <<tf_status, elastic_id, experiment_json, run_id, args,
                 cluster_template, server, cluster_info, cluster, ret, engine,
                 control, sink, tmp>>

\* shutdown, lines 181-183: one shutdown task per worker node (what was
\* observed of the drain loop is dropped here)
WorkerShutdown ==
  /\ pc[0] = "L181"
  /\ engine' = [engine EXCEPT !.worker_tasks = Len(sd.worker_list)]
  /\ Goto(0, "L186")
  /\ hist' = [hist EXCEPT !.strategies = @ \cup {"tasks"}, !.streak = 0,
                           !.stageRun = <<0, 0>>, !.byCount = FALSE]
  /\ UNCHANGED <<tf_status, elastic_id, experiment_json, running, run_id, args,
                 cluster_template, server, cluster_info, cluster, ret, sd, control,
                 sink, tmp>>

\* shutdown, lines 186-188: if 'error' in tf_status: exception_handler()
ShutdownCheckError ==
  /\ pc[0] = "L186"
  /\ Goto(0, IF "error" \in DOMAIN tf_status THEN "L407" ELSE "L194")
  /\ hist' = [hist EXCEPT !.errPath = "error" \in DOMAIN tf_status]
  /\ UNCHANGED <<tf_status, elastic_id, experiment_json, running, run_id, args,
                 cluster_template, server, cluster_info, cluster, ret, sd, engine,
                 control, sink, tmp>>

\* shutdown, line 189: self.sc.cancelAllJobs()
ShutdownCancelJobs ==
  /\ pc[0] = "L189"
  /\ engine' = [engine EXCEPT !.cancelled = @ + 1]
  /\ Goto(0, "L194")
  /\ UNCHANGED <<tf_status, elastic_id, experiment_json, running, run_id, args,
                 cluster_template, server, cluster_info, cluster, ret, sd, control,
                 sink, hist, tmp>>

\* util.finalize_experiment: parses its argument, marks the document FINISHED,
\* returns it serialized
CanFinalize(j) == CanLoad(j) /\ CanAssign(JsonLoads(j))
FinalizeExperiment(j) == JsonDumps(SetStatus(JsonLoads(j), "FINISHED"))

\* shutdown, line 194: util.finalize_experiment(experiment_json, None, None) is
\* evaluated
ShutdownFinalizeCall ==
  /\ pc[0] = "L194"
  /\ IF CanFinalize(experiment_json)
       THEN /\ tmp' = [tmp EXCEPT ![0] = FinalizeExperiment(experiment_json)]
            /\ Goto(0, "L194s")
            /\ UNCHANGED ret
       ELSE Raise("shutdown", "TypeError", <<>>) /\ UNCHANGED tmp
  /\ UNCHANGED <<tf_status, elastic_id, experiment_json, running, run_id, args,
                 cluster_template, server, cluster_info, cluster, sd, engine,
                 control, sink, hist>>

\* shutdown, line 196
ShutdownPutElastic ==
  /\ pc[0] = "L196"
  /\ PutElastic(0, 196)
  /\ Goto(0, "L202")
  /\ UNCHANGED <<tf_status, elastic_id, experiment_json, running, run_id, args,
                 cluster_template, server, cluster_info, cluster, ret, sd, engine,
                 control, hist, tmp>>

\* shutdown, lines 202-207: the next ps node gets the stop sentinel; after the
\* last one the loop is left
PsPut ==
  /\ pc[0] = "L202"
  /\ IF sd.i < Len(sd.ps_list)
       THEN /\ control' = [control EXCEPT ![sd.ps_list[sd.i + 1]] =
                             [put |-> @.put + 1, unfinished |-> @.unfinished + 1]]
            /\ Goto(0, "L208")
       ELSE Goto(0, "L213") /\ UNCHANGED control
  /\ UNCHANGED <<tf_status, elastic_id, experiment_json, running, run_id, args,
                 cluster_template, server, cluster_info, cluster, ret, sd, engine,
                 sink, hist, tmp>>

\* PsJoin without the wait of q.join()
PsJoinNoWait ==
  /\ pc[0] = "L208"
  /\ sd' = [sd EXCEPT !.i = @ + 1]
  /\ Goto(0, "L202")
  /\ UNCHANGED <<tf_status, elastic_id, experiment_json, running, run_id, args,
                 cluster_template, server, cluster_info, cluster, ret, engine,
                 control, sink, hist, tmp>>

\* shutdown, line 208: q.join() returns once the node has taken the sentinel
PsJoin ==
  /\ pc[0] = "L208"
  /\ control[sd.ps_list[sd.i + 1]].unfinished = 0
  /\ sd' = [sd EXCEPT !.i = @ + 1]
  /\ Goto(0, "L202")
  /\ UNCHANGED <<tf_status, elastic_id, experiment_json, running, run_id, args,
                 cluster_template, server, cluster_info, cluster, ret, engine,
                 control, sink, hist, tmp>>

\* the node at registry position n takes an item off its control queue
PsConsume(n) ==
  /\ Alive
  /\ n \in DOMAIN control
  /\ control[n].unfinished > 0
  /\ control' = [control EXCEPT ![n].unfinished = @ - 1]
  /\ UNCHANGED <<tf_status, elastic_id, experiment_json, running, run_id, pc, args,
                 cluster_template, server, cluster_info, cluster, ret, sd, engine,
                 sink, hist, tmp>>

\* FinalWait leaving the loop on any sample
FinalWaitAnySample ==
  /\ pc[0] = "L213"
  /\ \E jobs \in JobSamples :
       /\ sd' = [sd EXCEPT !.jobs = IF jobs THEN "some" ELSE "zero"]
       /\ pc' = [pc EXCEPT ![0] = "idle"]
       /\ ret' = [op |-> "shutdown", outcome |-> "returned", node_id |-> <<>>]
       /\ hist' = [hist EXCEPT !.terminated = @ \cup {cluster.run}]
  /\ UNCHANGED <<tf_status, elastic_id, experiment_json, running, run_id, args,
                 cluster_template, server, cluster_info, cluster, engine,
                 control, sink, tmp>>

\* shutdown, lines 211-217: one iteration of the final wait; shutdown returns
\* when the sample shows no active job
FinalWait ==
  /\ pc[0] = "L213"
  /\ \E jobs \in JobSamples :
       IF jobs
         THEN /\ sd' = [sd EXCEPT !.jobs = "some"]
              /\ hist' = [hist EXCEPT !.busy = TRUE]
              /\ UNCHANGED <<pc, ret>>
         ELSE /\ sd' = [sd EXCEPT !.jobs = "zero"]
              /\ pc' = [pc EXCEPT ![0] = "idle"]
              /\ ret' = [op |-> "shutdown", outcome |-> "returned", node_id |-> <<>>]
              /\ hist' = [hist EXCEPT !.terminated = @ \cup {cluster.run}]
  /\ UNCHANGED <<tf_status, elastic_id, experiment_json, running, run_id, args,
                 cluster_template, server, cluster_info, cluster, engine,
                 control, sink, tmp>>

\* ------------------------------------------------------- the specifications
Hosts == {"h1", "h2"}
ExecutorIds == {0, 1}
MasterNames == {None, "chief", "ps", "worker"}

\* the calls of run a caller can make
RunInputs(nodes, masters) ==
  [num_executors : nodes, num_ps : 0 .. MaxNodes,
   input_mode : {TENSORFLOW, SPARK}, driver_ps_nodes : BOOLEAN,
   log_dir : BOOLEAN, master_node : masters, ssc : {FALSE}]

\* where the engine places partition n: anywhere
AnyPlacement == [n \in 0 .. MaxNodes |-> Hosts \X ExecutorIds]

\* where the engine places partition n: on its own executor, or (a retried
\* task) on the executor of partition 0
OwnPlacement == [n \in 0 .. MaxNodes |-> {<<"h1", n>>, <<"h1", 0>>}]

\* where the engine places partition n: on its own executor
DistinctPlacement == [n \in 0 .. MaxNodes |-> {<<"h1", n>>}]

RunSteps ==
  \/ RunCheck
  \/ RunResetRecord
  \/ RunPopulate
  \/ RunPutElastic
  \/ RunStartThread
  \/ RunAwaitGpu
  \/ RunAwaitReservations
  \/ RunReservationTimeout
  \/ RunCheckDuplicates

ThreadSteps ==
  \E r \in 1 .. MaxRuns :
    \/ ThreadFinish(r)
    \/ ThreadRaise(r)
    \/ ThreadSetError(r)
    \/ ExceptionHandler(r)

\* shutdown from the scheduling of the worker tasks on
ShutdownTail ==
  \/ WorkerShutdown
  \/ ShutdownCheckError
  \/ ExceptionHandler(0)
  \/ ShutdownCancelJobs
  \/ ShutdownFinalizeCall
  \/ HandlerStore(0, "L194s", "L196")
  \/ ShutdownPutElastic
  \/ PsPut
  \/ PsJoin
  \/ FinalWait

ShutdownSteps ==
  \/ ShutdownCall(BOOLEAN)
  \/ StreamTick
  \/ StreamCheck
  \/ TfPoll
  \/ ShutdownTail

\* the calls of run on two executors in SPARK mode: with 0 or 1 ps node, or
\* failing the check of line 266
SparkInputs ==
  {a \in RunInputs({2}, {None}) :
     a.input_mode = SPARK /\ ~a.driver_ps_nodes /\ ~a.log_dir}

\* one call of run in a fresh process, with every argument and every placement
NextRun ==
  \/ RunCall(RunInputs(1 .. MaxNodes, MasterNames), 1)
  \/ RunSteps
  \/ NodeGpuCheck
  \/ NodeRegister(AnyPlacement)
  \/ ThreadSteps

SpecRun == Init /\ [][NextRun]_vars

\* the life of a process that starts one cluster: run, shutdown, the exit
Next ==
  \/ RunCall(RunInputs({MaxNodes}, {None, "chief"}), 1)
  \/ RunSteps
  \/ NodeGpuCheck
  \/ NodeRegister(OwnPlacement)
  \/ ThreadSteps
  \/ ShutdownSteps
  \/ ServerDone
  \/ \E n \in 1 .. MaxNodes : PsConsume(n)
  \/ ProcessExit
  \/ ExitHandler

Spec == Init /\ [][Next]_vars

Items == {"a", "b"}

\* the calls of train a caller can make
TrainInputs ==
  [dataRDD : UNION {[1 .. n -> Items] : n \in 0 .. MaxLen},
   num_epochs : -1 .. MaxEpochs, qname : {"input", "bogus"}, dstream : BOOLEAN]

\* one call of run on two executors in a fresh process, and one call of train
\* on the handle it returned
NextFeed ==
  \/ RunCall(RunInputs({2}, {None}), 1)
  \/ RunSteps
  \/ NodeGpuCheck
  \/ NodeRegister(DistinctPlacement)
  \/ ThreadSteps
  \/ Train(TrainInputs)

SpecFeed == Init /\ [][NextFeed]_vars

\* no background thread is running
ThreadsOver == \A r \in 1 .. MaxRuns : pc[r] \in {"unborn", "finished", "end", "dead"}

\* the life of a process that calls run up to MaxRuns times in SPARK mode,
\* each time after the background thread of the call before has ended, and
\* exits
NextCalls ==
  \/ ThreadsOver /\ RunCall(SparkInputs, MaxRuns)
  \/ RunSteps
  \/ NodeGpuCheck
  \/ NodeRegister(DistinctPlacement)
  \/ ThreadSteps
  \/ ProcessExit
  \/ ExitHandler

SpecCalls == Init /\ [][NextCalls]_vars

\* the life of a process that calls run up to MaxRuns times in SPARK mode, each
\* time after the background thread of the call before has ended, with a
\* shutdown (no streaming handle) of the handle it holds whenever it likes,
\* and the exit
NextRuns ==
  \/ ThreadsOver /\ RunCall(SparkInputs, MaxRuns)
  \/ RunSteps
  \/ NodeGpuCheck
  \/ NodeRegister(DistinctPlacement)
  \/ ThreadSteps
  \/ ShutdownCall({FALSE})
  \/ ShutdownTail
  \/ \E n \in 1 .. MaxNodes : PsConsume(n)
  \/ ProcessExit
  \/ ExitHandler

SpecRuns == Init /\ [][NextRuns]_vars

\* the life of a two-node cluster whose engine can run out of jobs for good.
\* The driver thread and the background thread keep running while they have a
\* statement to execute, and the ps nodes keep taking what is put on their
\* control queues.
NextLive ==
  \/ RunCall(RunInputs({2}, {None}), 1)
  \/ RunSteps
  \/ NodeGpuCheck
  \/ NodeRegister(OwnPlacement)
  \/ ThreadSteps
  \/ ShutdownSteps
  \/ ServerDone
  \/ \E n \in 1 .. MaxNodes : PsConsume(n)
  \/ EngineQuiet

SpecLive ==
  /\ Init
  /\ [][NextLive]_vars
  /\ WF_vars(pc[0] # "idle" /\ ShutdownSteps)
  /\ WF_vars(ThreadSteps)
  /\ WF_vars(\E n \in 1 .. MaxNodes : PsConsume(n))

\* ------------------------------------------------------------------ claims
\* the records the current (or last) call of shutdown itself wrote: positions in sink
ShutdownWrites ==
  {i \in (sd.mark + 1) .. Len(sink) : sink[i].actor = 0 /\ sink[i].line \in {196, 412}}

ShutdownReturned == ret.op = "shutdown" /\ ret.outcome = "returned"

\* C1: in TENSORFLOW-mode shutdown the drain loop ends with jobs still active
\* only when the last 3 consecutive poll samples each showed a stage whose
\* active-task count equals the number of ps nodes.  A poll sample is read
\* both ways: as one iteration of the loop (hist.streak) and as one
\* getStageInfo result (hist.stageRun); the property asks for 3 in a row
\* under either reading.
C1_ThreeConsecutiveSamples ==
  hist.byCount => (hist.streak >= DoneCount \/ hist.stageRun[2] >= DoneCount)

\* C2: when shutdown has found tf_status['error'] set and is about to cancel the
\* jobs (line 189), shutdown itself has written a FAILED record in this call, and
\* no stop sentinel has been sent yet.
C2_FailedWrittenBeforeCancel ==
  pc[0] = "L189" =>
    /\ \E i \in ShutdownWrites : sink[i].line = 412 /\ sink[i].doc.status = "FAILED"
    /\ \A n \in DOMAIN control : control[n].put = 0

\* C3: in a shutdown that took the error path, the last record shutdown wrote
\* has status FAILED, never FINISHED.
C3_FailedNotOverwritten ==
  (hist.errPath /\ pc[0] \in {"L202", "L208", "L213", "idle"} /\ ShutdownWrites # {}) =>
    LET last == CHOOSE i \in ShutdownWrites : \A j \in ShutdownWrites : j <= i
    IN sink[last].doc.status = "FAILED"

\* C4: no record is written under a run's label after the shutdown of that run
\* has returned.
C4_NoWriteAfterTerminated ==
  \A i \in DOMAIN sink : sink[i].label \notin sink[i].terminated

\* C5: a call of run that fails the check num_ps < num_executors leaves the
\* module globals as they were before the call, and has started neither a
\* server nor a background thread.
C5_AssertBeforeSideEffects ==
  (ret.op = "run" /\ ret.outcome = "AssertionError") =>
    /\ Globals = hist.pre
    /\ \A r \in 1 .. MaxRuns : ~server[r].started /\ pc[r] = "unborn"

\* the interpreter is running exit_handler or has exited
Exiting ==
  pc[0] \in {"L417", "L418", "L418s", "L419", "L421", "L421s", "L422", "exited"}

\* C6: a background thread that caught an exception of the bootstrap job and
\* has ended (while the interpreter is not exiting) has stored the message in
\* tf_status['error'] and has written a FAILED record.
C6_FailureRecorded ==
  \A r \in 1 .. MaxRuns :
    (pc[r] \in {"end", "dead"} /\ ~Exiting) =>
      /\ "error" \in DOMAIN tf_status
      /\ \E i \in DOMAIN sink :
           sink[i].actor = r /\ sink[i].line = 412 /\ sink[i].doc.status = "FAILED"

IsPs(n) == cluster.cluster_info[n].job_name = "ps"

\* the driver is between the ps loop and the return of shutdown, or has returned
AfterPsLoop == pc[0] = "L213" \/ ShutdownReturned

\* C7: in every shutdown each ps node of the registry gets exactly one None on
\* its control queue and no other node gets any; the driver contacts a ps node
\* only when every sentinel sent before has been taken (join returned), and
\* starts the final wait only when all of them have been.
C7_OneSentinelPerPs ==
  \A n \in DOMAIN control :
    /\ control[n].put <= 1
    /\ ~IsPs(n) => control[n].put = 0
    /\ (AfterPsLoop /\ IsPs(n)) => (control[n].put = 1 /\ control[n].unfinished = 0)
    /\ (pc[0] = "L202" /\ cluster.shut) => control[n].unfinished = 0
    /\ (pc[0] = "L208" /\ n # sd.ps_list[sd.i + 1]) => control[n].unfinished = 0

\* a shutdown that took the error path has returned from a cluster with two ps
\* nodes and a worker
C7_Witness ==
  /\ ShutdownReturned
  /\ hist.errPath
  /\ Cardinality({n \in DOMAIN control : IsPs(n)}) >= 2
  /\ \E n \in DOMAIN control : ~IsPs(n)

RunReturnedHandle == ret.op = "run" /\ ret.outcome = "handle"

\* C8: run passes its capability wait only with all signals in, its registration
\* wait only with all records in, and returns a handle only after both, with the
\* complete registry; when await_reservations times out run raises, with
\* fewer records than nodes and no handle.
C8_HandleAfterRendezvous ==
  /\ pc[0] \in {"L357", "L378"} => server[run_id].gpu = server[run_id].count
  /\ pc[0] = "L378" =>
       (cluster_info = server[run_id].reservations
        /\ Len(cluster_info) = server[run_id].count)
  /\ RunReturnedHandle =>
       /\ cluster.run = run_id
       /\ server[run_id].gpu = server[run_id].count
       /\ Len(cluster.cluster_info) = server[run_id].count
       /\ cluster.cluster_info = server[run_id].reservations
  /\ (ret.op = "run" /\ ret.outcome = "Timeout") =>
       /\ cluster = NoCluster
       /\ Len(server[run_id].reservations) < server[run_id].count

\* run has returned a handle on a complete registry while its background
\* thread is still inside foreachPartition
C8_Witness ==
  /\ RunReturnedHandle
  /\ Len(cluster.cluster_info) = MaxNodes
  /\ pc[run_id] = "L326"

\* the registry positions that share their (host, executor_id) with another one
SharedIds(info) ==
  {i \in DOMAIN info : \E j \in DOMAIN info :
     j # i /\ info[j].host = info[i].host /\ info[j].executor_id = info[i].executor_id}

\* C9: the registry of a returned handle has pairwise distinct (host,
\* executor_id); a completed registry with two records of one pair makes run
\* raise the duplicate-node error, which names such a pair, and no handle is
\* returned.
C9_UniqueNodeIds ==
  /\ RunReturnedHandle => SharedIds(cluster.cluster_info) = {}
  /\ (ret.op = "run" /\ ret.outcome = "Duplicate") =>
       /\ cluster = NoCluster
       /\ \E i \in SharedIds(server[run_id].reservations) :
            ret.node_id = <<server[run_id].reservations[i].host,
                            server[run_id].reservations[i].executor_id>>
  /\ (ret.op = "run" /\ ret.outcome \in {"handle", "Duplicate"}
        /\ SharedIds(server[run_id].reservations) # {}) =>
       ret.outcome = "Duplicate"

\* run has raised the duplicate-node error on a registry whose first and last
\* record share their pair while the one between them does not
C9_Witness ==
  /\ ret.op = "run" /\ ret.outcome = "Duplicate"
  /\ LET info == server[run_id].reservations
     IN /\ Len(info) = 3
        /\ SharedIds(info) = {1, 3}
        /\ ret.node_id = <<info[1].host, info[1].executor_id>>

\* the role ranges are a partition of [0, n)
IsPartition(template, n) ==
  \A i \in 0 .. (n - 1) : Cardinality({k \in DOMAIN template : i \in template[k]}) = 1

\* C10: once run has built the template (lines 274-283), for every master_node,
\* its ranges are a partition of [0, num_executors): without a master 'ps' is
\* [0, num_ps) and 'worker' [num_ps, num_executors); with one the master range
\* is {num_ps} and 'worker' is [num_ps + 1, num_executors), absent when empty.
C10_TemplateIsPartition ==
  pc[0] \in {"L317", "L318", "L320", "L346", "L351", "L357", "L378"} =>
    /\ IsPartition(cluster_template, args.num_executors)
    /\ \A k \in DOMAIN cluster_template :
         cluster_template[k] \subseteq 0 .. (args.num_executors - 1)
    /\ IF args.master_node = None
         THEN /\ DOMAIN cluster_template = {"ps", "worker"}
              /\ cluster_template["ps"] = 0 .. (args.num_ps - 1)
              /\ cluster_template["worker"] = args.num_ps .. (args.num_executors - 1)
         ELSE /\ args.master_node \in DOMAIN cluster_template
              /\ cluster_template[args.master_node] = {args.num_ps}
              /\ "worker" \in DOMAIN cluster_template =>
                   cluster_template["worker"] # {}

\* the driver has left the mode's drain of the current shutdown call
PastDrain ==
  \/ pc[0] \in {"L186", "L189", "L194", "L194s", "L196", "L202", "L208", "L213"}
  \/ ShutdownReturned

\* C11 (as stated): one shutdown call runs exactly one of the streaming poll,
\* the engine status poll and the scheduling of the per-worker shutdown tasks,
\* never two of them.
C11_ExactlyOneStrategy ==
  /\ Cardinality(hist.strategies) <= 1
  /\ PastDrain => Cardinality(hist.strategies) = 1

\* C11 (amended): the strategies one shutdown call runs are fixed by its mode:
\* with a streaming handle the streaming poll alone; without one the
\* scheduling of the per-worker shutdown tasks, after the engine status poll
\* in TENSORFLOW mode and alone in SPARK mode.  The streaming poll never runs
\* in a call that runs one of the others.
C11_StrategiesByMode ==
  /\ "streaming" \in hist.strategies => hist.strategies = {"streaming"}
  /\ ("tasks" \in hist.strategies /\ cluster.input_mode = TENSORFLOW) =>
       "status" \in hist.strategies
  /\ PastDrain =>
       hist.strategies =
         IF args.ssc THEN {"streaming"}
         ELSE IF cluster.input_mode = TENSORFLOW THEN {"status", "tasks"}
         ELSE {"tasks"}

\* a TENSORFLOW-mode shutdown without a streaming handle has polled the engine
\* and scheduled the shutdown tasks of its workers
C11_Witness ==
  /\ pc[0] = "L186"
  /\ ~args.ssc
  /\ cluster.input_mode = TENSORFLOW
  /\ hist.strategies = {"status", "tasks"}
  /\ engine.worker_tasks > 0

\* every ps node of the current shutdown call has its sentinel and has taken it
AllPsStopped ==
  /\ sd.i = Len(sd.ps_list)
  /\ \A k \in DOMAIN sd.ps_list :
       control[sd.ps_list[k]].put = 1 /\ control[sd.ps_list[k]].unfinished = 0

\* C12: shutdown takes the samples of its final wait only after every ps node
\* got its sentinel and the join on it returned, and returns only on a sample
\* that shows no active job: a sample that shows one keeps it waiting.
C12_ReturnAfterIdleSample ==
  /\ pc[0] = "L213" => AllPsStopped
  /\ hist.busy => AllPsStopped
  /\ ShutdownReturned => (AllPsStopped /\ sd.jobs = "zero")

\* a shutdown of a cluster with a ps node has returned after a sample of its
\* final wait had shown active jobs
C12_Witness ==
  /\ ShutdownReturned
  /\ hist.busy
  /\ Len(sd.ps_list) = 1
  /\ sd.jobs = "zero"

\* C13: in TENSORFLOW-mode shutdown a sample that shows no active job ends the
\* drain loop at that sample, whatever the count; and once the engine has no
\* active job for good, a shutdown that is in the drain loop returns.
C13_NoJobsEndsShutdown ==
  /\ [](pc[0] = "L160" => sd.jobs # "zero")
  /\ ((pc[0] = "L160" /\ engine.quiet) ~> ShutdownReturned)

\* the driver is in, or has just left, the poll loop of a streaming shutdown
StreamingShutdown == args.ssc /\ pc[0] \in {"L148", "L152", "L186"}

\* C14: a streaming shutdown stays in its poll loop only while the last tick
\* found the controller running, leaves it with the controller running only
\* on server.done and then has asked once for the graceful stop, asks for no
\* stop when the last tick found the controller terminated, and before the
\* post-drain step has run no status poll and scheduled no worker task.
C14_StreamingPoll ==
  StreamingShutdown =>
    /\ (pc[0] = "L148" /\ "streaming" \in hist.strategies) => ~sd.term
    /\ engine.ssc_stopped <= 1
    /\ (pc[0] = "L186" /\ ~sd.term) =>
         (server[cluster.run].done /\ engine.ssc_stopped = 1)
    /\ sd.term => engine.ssc_stopped = 0
    /\ hist.strategies \subseteq {"streaming"}
    /\ engine.worker_tasks = 0

\* the background thread of run r has stored an error in tf_status
ErrorRecordedBy(r) ==
  pc[r] \in {"L407", "L408", "L408s", "L409", "L411", "L411s", "L412", "end", "dead"}

\* C15: RunStatus is scoped to a run, so the error that sends a shutdown down
\* the error path (exception_handler, cancelAllJobs) is never one that only
\* the background threads of runs before the run of its handle recorded.
C15_NoErrorOfEarlierRun ==
  hist.errPath => \E r \in cluster.run .. MaxRuns : ErrorRecordedBy(r)

Terminal == {"FINISHED", "FAILED", "KILLED"}

\* C16: once a record with a terminal status has been written under a label,
\* no later write under that label carries the status RUNNING.
C16_NoRunningAfterTerminal ==
  \A i, j \in DOMAIN sink :
    (i < j /\ sink[i].label = sink[j].label /\ sink[i].doc.status \in Terminal) =>
      sink[j].doc.status # "RUNNING"

\* C17: train on a sequence S that is not a stream, in SPARK mode and on a
\* queue of the handle, hands the engine for e > 0 exactly e copies of S one
\* after the other, for e = 0 exactly 10 copies; for e < 0 it raises the
\* assertion error and hands the engine nothing.
C17_EpochCopies ==
  (ret.op = "train" /\ ~hist.call.dstream) =>
    LET S == hist.call.dataRDD
        e == hist.call.num_epochs
        n == IF e = 0 THEN 10 ELSE e
    IN /\ e < 0 => (ret.outcome = "AssertionError" /\ engine.fed = <<>>)
       /\ ret.outcome = "AssertionError" => engine.fed = <<>>
       /\ (e >= 0 /\ cluster.input_mode = SPARK /\ hist.call.qname \in Queues) =>
            /\ ret.outcome = "returned"
            /\ Len(engine.fed) = 1
            /\ Len(engine.fed[1]) = n * Len(S)
            /\ \A i \in 1 .. (n * Len(S)) :
                 engine.fed[1][i] = S[((i - 1) % Len(S)) + 1]

\* train with num_epochs = 0 has handed the engine the 10 copies of a
\* two-row sequence of different rows
C17_Witness ==
  /\ ret.op = "train" /\ ret.outcome = "returned"
  /\ ~hist.call.dstream
  /\ hist.call.num_epochs = 0
  /\ hist.call.dataRDD = <<"a", "b">>
  /\ Len(engine.fed) = 1 /\ Len(engine.fed[1]) = 20

\* C18: after k calls of run in one process, whether they returned a handle or
\* raised, run_id = k and elastic_id = k (1 after the first call), and no step
\* of the program makes either smaller.
C18_IdsCountCalls ==
  /\ [](run_id = hist.calls /\ elastic_id = hist.calls)
  /\ [][run_id' >= run_id /\ elastic_id' >= elastic_id]_vars

\* the second call of run has raised on its precondition after the first one
\* returned a handle
C18_Witness ==
  /\ hist.calls = 2
  /\ run_id = 2 /\ elastic_id = 2
  /\ ret.op = "run" /\ ret.outcome = "AssertionError"
  /\ cluster.run = 1

\* C19: under every interleaving of shutdown's finalizer, exception_handler
\* and exit_handler, a writer that reads experiment_json to parse it finds a
\* serialized document, so none of them fails on the record: no background
\* thread dies in its handler and shutdown raises no TypeError.
C19_NoWriterFails ==
  /\ \A r \in 1 .. MaxRuns : pc[r] # "dead"
  /\ ret.outcome # "TypeError"

\* C20: every document written under the label of the k-th call of run is the
\* record that call populated: no record of an earlier run is written under
\* a later label, and none for a call that populated no record.
C20_LabelCarriesOwnRecord ==
  \A i \in DOMAIN sink : sink[i].doc.owner = sink[i].label

====
